---- MODULE Spec2Model ----
(***************************************************************************)
(* ShlApiClient (custom_components/shl/api.py): the authenticated fetch    *)
(* client of the SHL integration, as a state machine.                      *)
(*                                                                         *)
(* State: the client's fields (_team_ids, _headers, _expires), the wall    *)
(* clock, the records captured from _LOGGER, and one record per coroutine  *)
(* that is running a call on the client.  A coroutine runs without         *)
(* interruption between two awaits, so every action is the code between    *)
(* two suspension points of one coroutine.                                 *)
(***************************************************************************)
EXTENDS Integers, Sequences, FiniteSets, TLC

VARIABLES self_team_ids, self_headers, self_expires, now, log, task, probe

vars == <<self_team_ids, self_headers, self_expires, now, log, task, probe>>

(* ------------------------------ bounds -------------------------------- *)

\* The clock runs from 1 to MaxTime.
MaxTime == 3
\* A team-id list holds at most MaxTeams ids.
MaxTeams == 2
\* At most MaxLog failures are injected between two clearings of the log.
MaxLog == 2

(* --------------------------- Python values ---------------------------- *)

None == [t |-> "None"]
Dict(f) == [t |-> "dict", v |-> f]
List(s) == [t |-> "list", v |-> s]
Bool(b) == [t |-> "bool", v |-> b]
EmptyDict == Dict(<<>>)

\* bool(x)
Truthy(x) ==
  CASE x.t = "None" -> FALSE
    [] x.t = "dict" -> DOMAIN x.v # {}
    [] x.t = "list" -> x.v # <<>>
    [] x.t = "bool" -> x.v
    [] OTHER -> TRUE

\* iter(x) succeeds
Iterable(x) == x.t \in {"dict", "list"}

\* sep.join(seq)
RECURSIVE Join(_, _)
Join(sep, seq) ==
  IF seq = <<>> THEN ""
  ELSE IF Len(seq) = 1 THEN seq[1]
  ELSE seq[1] \o sep \o Join(sep, Tail(seq))

(* ----------------------------- constants ------------------------------ *)

NAME == "SHL"
VERSION == "0.0.1"
UserAgent == NAME \o "/" \o VERSION
HEADERS ==
  ("Content-type" :> "application/json; charset=UTF-8") @@ ("User-Agent" :> UserAgent)
BASE_URL == "https://openapi.shl.se"
AUTH == "/oauth2/token"
TokenUrl == BASE_URL \o AUTH
\* datetime.min
DatetimeMin == 0

FmtTimeout == "Timeout error fetching information from %s - %s"
FmtParse == "Error parsing information from %s - %s"
FmtFetch == "Error fetching information from %s - %s"
FmtGeneric == "Something really wrong happened! - %s"

(* ------------------------------- inputs ------------------------------- *)

Tasks == {"t1", "t2"}
MainTask == "t1"
Teams == {"HV71", "LHC"}
TeamLists ==
  {s \in UNION {[1..n -> Teams] : n \in 0..MaxTeams} :
     \A i, j \in DOMAIN s : i # j => s[i] # s[j]}
Seasons == {0, 2022}
MatchIds == {"m1234"}
TeamCodes == {"HV71"}
Verbs == {"get", "put", "patch", "post"}
ClientId == "test"
ClientSecret == "test"
\* what the caller of api_wrapper passes as headers: the default {} or an override
OverrideHeaders == Dict("User-Agent" :> "pytest")
WrapperUrl == "https://jsonplaceholder.typicode.com/posts/1"
\* the exceptions the transport raises inside the try block
Faults == {"TimeoutError", "ClientError", "gaierror", "KeyError", "TypeError", "ValueError"}
\* JSON bodies the API answers a GET with
Payloads == {Dict([test |-> "me"]), List(<<"a1">>)}
\* JSON bodies the token endpoint answers with
ExpiresIn == {1, 2}
Tokens == {"tokA"}
TokenBodies ==
  {Dict([expires_in |-> e, access_token |-> tok]) : e \in ExpiresIn, tok \in Tokens}
    \cup {Dict([error |-> "invalid_client"])}

(* --------------------------- pure functions --------------------------- *)

\* The call a coroutine runs: the operation and its arguments.
MkCall(name, season, team_ids, stat, key, method, url, headers) ==
  [name |-> name, season |-> season, team_ids |-> team_ids, stat |-> stat,
   key |-> key, method |-> method, url |-> url, headers |-> headers]

\* The arguments of one api_wrapper call.
MkArgs(method, url, data, headers, params) ==
  [method |-> method, url |-> url, data |-> data, headers |-> headers, params |-> params]

generate_url(query, season) ==
  IF season # 0
    THEN BASE_URL \o "/seasons/" \o ToString(season) \o "/" \o query
    ELSE BASE_URL \o "/" \o query

async_get_articles(team_ids) ==
  LET url == generate_url("articles", 0)
  IN IF team_ids # <<>>
       THEN MkArgs("get", url, EmptyDict, EmptyDict, Dict("teamIds" :> Join(",", team_ids)))
       ELSE MkArgs("get", url, EmptyDict, EmptyDict, EmptyDict)

async_get_games(client_team_ids, season, team_ids) ==
  LET url == generate_url("games", season)
  IN IF team_ids # <<>>
       THEN MkArgs("get", url, EmptyDict, EmptyDict,
                   Dict("teamIds" :> Join(",", client_team_ids)))
       ELSE MkArgs("get", url, EmptyDict, EmptyDict, EmptyDict)

async_get_game(season, match_id) ==
  MkArgs("get", generate_url("games/" \o match_id \o ".json", season),
         EmptyDict, EmptyDict, EmptyDict)

\* params = {'sort': stat}; if team_ids: params['team_ids'] = ",".join(team_ids)
StatParams(stat, team_ids) ==
  IF team_ids # <<>>
    THEN Dict(("sort" :> stat) @@ ("team_ids" :> Join(",", team_ids)))
    ELSE Dict("sort" :> stat)

async_get_player_stats(season, stat, team_ids) ==
  MkArgs("get", generate_url("statistics/players.json", season),
         EmptyDict, EmptyDict, StatParams(stat, team_ids))

async_get_goalie_stats(season, stat, team_ids) ==
  MkArgs("get", generate_url("statistics/goalkeepers.json", season),
         EmptyDict, EmptyDict, StatParams(stat, team_ids))

async_get_teams ==
  MkArgs("get", generate_url("teams.json", 0), EmptyDict, EmptyDict, EmptyDict)

async_get_team_stats(season, team_ids) ==
  LET url == generate_url("statistics/teams/standings.json", season)
  IN IF team_ids # <<>>
       THEN MkArgs("get", url, EmptyDict, EmptyDict, Dict("team_ids" :> Join(",", team_ids)))
       ELSE MkArgs("get", url, EmptyDict, EmptyDict, EmptyDict)

async_get_team_player_stats(team_code) ==
  MkArgs("get", generate_url("teams/" \o team_code \o ".json", 0),
         EmptyDict, EmptyDict, EmptyDict)

async_get_videos(team_ids) ==
  LET url == generate_url("videos.json", 0)
  IN IF team_ids # <<>>
       THEN MkArgs("get", url, EmptyDict, EmptyDict, Dict("team_ids" :> Join(",", team_ids)))
       ELSE MkArgs("get", url, EmptyDict, EmptyDict, EmptyDict)

\* async_connect, up to its await: the POST to the token endpoint.
ConnectRequest ==
  MkArgs("post", TokenUrl,
         Dict([client_id |-> ClientId, client_secret |-> ClientSecret,
               grant_type |-> "client_credentials"]),
         Dict("User-Agent" :> UserAgent), EmptyDict)

\* The api_wrapper call that stage `stage` of call c makes (async_get_data makes
\* two, one after the other; every other operation makes one).
WrapperArgs(client_team_ids, c, stage) ==
  CASE c.name = "async_connect" -> ConnectRequest
    [] c.name = "async_get_articles" -> async_get_articles(c.team_ids)
    [] c.name = "async_get_games" -> async_get_games(client_team_ids, c.season, c.team_ids)
    [] c.name = "async_get_game" -> async_get_game(c.season, c.key)
    [] c.name = "async_get_player_stats" -> async_get_player_stats(c.season, c.stat, c.team_ids)
    [] c.name = "async_get_goalie_stats" -> async_get_goalie_stats(c.season, c.stat, c.team_ids)
    [] c.name = "async_get_teams" -> async_get_teams
    [] c.name = "async_get_team_stats" -> async_get_team_stats(c.season, c.team_ids)
    [] c.name = "async_get_team_player_stats" -> async_get_team_player_stats(c.key)
    [] c.name = "async_get_videos" -> async_get_videos(c.team_ids)
    [] c.name = "async_get_data" /\ stage = 1 ->
         async_get_games(client_team_ids, c.season, c.team_ids)
    [] c.name = "async_get_data" /\ stage = 2 -> async_get_articles(c.team_ids)
    [] OTHER -> MkArgs(c.method, c.url, EmptyDict, c.headers, EmptyDict)

\* The classes an exception is an instance of.
Bases(exc) ==
  CASE exc = "TimeoutError" -> {"TimeoutError", "Exception"}
    [] exc = "ClientError" -> {"ClientError", "Exception"}
    [] exc = "gaierror" -> {"gaierror", "OSError", "Exception"}
    [] exc = "KeyError" -> {"KeyError", "LookupError", "Exception"}
    [] exc = "TypeError" -> {"TypeError", "Exception"}
    [] exc = "ValueError" -> {"ValueError", "Exception"}
    [] OTHER -> {exc, "BaseException"}

\* ExceptHandler with `except KeyError` in place of `except (KeyError, TypeError)`.
ExceptHandlerParseKeyErrorOnly(exc) ==
  IF "TimeoutError" \in Bases(exc) THEN FmtTimeout
  ELSE IF Bases(exc) \cap {"KeyError"} # {} THEN FmtParse
  ELSE IF Bases(exc) \cap {"ClientError", "gaierror"} # {} THEN FmtFetch
  ELSE IF "Exception" \in Bases(exc) THEN FmtGeneric
  ELSE ""

\* The except clauses of api_wrapper, in order: the format of the record the first
\* matching clause logs, "" when no clause matches.
ExceptHandler(exc) ==
  IF "TimeoutError" \in Bases(exc) THEN FmtTimeout
  ELSE IF Bases(exc) \cap {"KeyError", "TypeError"} # {} THEN FmtParse
  ELSE IF Bases(exc) \cap {"ClientError", "gaierror"} # {} THEN FmtFetch
  ELSE IF "Exception" \in Bases(exc) THEN FmtGeneric
  ELSE ""

\* _LOGGER.error(fmt, url, exception), or _LOGGER.error(fmt, exception)
LogRecord(fmt, url, exc) ==
  [fmt |-> fmt, args |-> IF fmt = FmtGeneric THEN <<exc>> ELSE <<url, exc>>]

\* `not headers and not self.is_connected`: is_connected is not called, and a bound
\* method is true.
BoundMethodTruthy == TRUE
NeedsConnect(headers) == ~Truthy(headers) /\ ~BoundMethodTruthy

\* is_connected(): self._headers and self._expires > datetime.now()
is_connected(headers, expires, clock) ==
  IF ~Truthy(headers) THEN headers ELSE Bool(expires > clock)

\* datetime + x is defined for a timedelta only.
DatetimeAddDefined(operand_type) == operand_type = "timedelta"

\* ConnectTail with `self._headers = HEADERS.copy()` moved before the line that
\* reads body['expires_in'].
ConnectTailHeadersFirst(body, headers, expires, clock) ==
  [raised |-> "TypeError", ret |-> None, headers |-> Dict(HEADERS), expires |-> expires]

\* ConnectTail that falls back to defaults when api_wrapper returned no body.
ConnectTailDefaults(body, headers, expires, clock) ==
  IF body.t # "dict"
    THEN [raised |-> "none", ret |-> body,
          headers |-> Dict(HEADERS @@ ("Authorization" :> "Bearer ")),
          expires |-> clock + 1]
    ELSE [raised |-> "TypeError", ret |-> None, headers |-> headers, expires |-> expires]

\* async_connect after its await (lines 45-48), given what api_wrapper returned:
\* the exception raised ("none" when there is none), the value returned, and the
\* client's _headers and _expires afterwards.
ConnectTail(body, headers, expires, clock) ==
  IF body.t # "dict"
    THEN \* body['expires_in'] on None
         [raised |-> "TypeError", ret |-> None, headers |-> headers, expires |-> expires]
  ELSE IF "expires_in" \notin DOMAIN body.v
    THEN [raised |-> "KeyError", ret |-> None, headers |-> headers, expires |-> expires]
  ELSE IF ~DatetimeAddDefined("int")
    THEN \* datetime.now() + int(...)
         [raised |-> "TypeError", ret |-> None, headers |-> headers, expires |-> expires]
  ELSE IF "access_token" \notin DOMAIN body.v
    THEN [raised |-> "KeyError", ret |-> None, headers |-> Dict(HEADERS),
          expires |-> clock + body.v.expires_in]
  ELSE [raised |-> "none", ret |-> body,
        headers |-> Dict(HEADERS @@ ("Authorization" :> "Bearer " \o body.v.access_token)),
        expires |-> clock + body.v.expires_in]

\* async_get_data after its two awaits: the two loops.
GetDataTail(games, articles) ==
  IF ~Iterable(games) \/ ~Iterable(articles) THEN "TypeError" ELSE "none"

(* ------------------------------- calls --------------------------------- *)

NoCall == MkCall("none", 0, <<>>, "", "", "", "", EmptyDict)
NoRequest == [method |-> "", url |-> "", headers |-> None, json |-> None, params |-> EmptyDict]

\* A coroutine that runs no call.
IdleTask ==
  [pc |-> "idle", call |-> NoCall, stage |-> 0, req |-> NoRequest, resp |-> None,
   faults |-> <<>>, games |-> None, wret |-> None, ret |-> None, raised |-> "none"]

PlayerStats == {"plusminus"}
GoalieStats == {"savesPercent"}

FetchCalls ==
  {MkCall("async_get_articles", 0, ids, "", "", "", "", EmptyDict) : ids \in TeamLists}
    \cup {MkCall("async_get_games", s, ids, "", "", "", "", EmptyDict) :
            s \in Seasons, ids \in TeamLists}
    \cup {MkCall("async_get_game", s, <<>>, "", m, "", "", EmptyDict) :
            s \in Seasons, m \in MatchIds}
    \cup {MkCall("async_get_player_stats", s, ids, st, "", "", "", EmptyDict) :
            s \in Seasons, ids \in TeamLists, st \in PlayerStats}
    \cup {MkCall("async_get_goalie_stats", s, ids, st, "", "", "", EmptyDict) :
            s \in Seasons, ids \in TeamLists, st \in GoalieStats}
    \cup {MkCall("async_get_teams", 0, <<>>, "", "", "", "", EmptyDict)}
    \cup {MkCall("async_get_team_stats", s, ids, "", "", "", "", EmptyDict) :
            s \in Seasons, ids \in TeamLists}
    \cup {MkCall("async_get_team_player_stats", 0, <<>>, "", k, "", "", EmptyDict) :
            k \in TeamCodes}
    \cup {MkCall("async_get_videos", 0, ids, "", "", "", "", EmptyDict) : ids \in TeamLists}

ConnectCall == MkCall("async_connect", 0, <<>>, "", "", "", "", EmptyDict)

GetDataCalls ==
  {MkCall("async_get_data", s, ids, "", "", "", "", EmptyDict) :
     s \in Seasons, ids \in TeamLists}

WrapperCalls ==
  {MkCall("api_wrapper", 0, <<>>, "", "", m, WrapperUrl, h) :
     m \in Verbs, h \in {EmptyDict, OverrideHeaders}}

Calls == {ConnectCall} \cup FetchCalls \cup GetDataCalls \cup WrapperCalls

\* The calls of the interleaved runs.
ConcCalls ==
  {ConnectCall, MkCall("async_get_teams", 0, <<>>, "", "", "", "", EmptyDict),
   MkCall("api_wrapper", 0, <<>>, "", "", "post", WrapperUrl, EmptyDict)}
ConcFaults == {"TimeoutError"}

\* What the server answers a request with.
Bodies(req) ==
  IF req.url = TokenUrl THEN TokenBodies
  ELSE IF req.method = "get" THEN Payloads
  ELSE {None}

(* ------------------------------ api_wrapper ---------------------------- *)

\* api_wrapper from its entry to its first await: the test of line 138, then the
\* request with `headers or self._headers`.  self.connect does not exist.
ApiWrapperEnter(tk, w, stored_headers) ==
  IF NeedsConnect(w.headers)
    THEN [tk EXCEPT !.pc = "done", !.raised = "AttributeError"]
    ELSE [tk EXCEPT !.pc = "await_http",
                    !.req = [method |-> w.method, url |-> w.url,
                             headers |-> IF Truthy(w.headers) THEN w.headers
                                         ELSE stored_headers,
                             json |-> IF w.method = "get" THEN None ELSE w.data,
                             params |-> w.params]]

\* The caller of api_wrapper resumes with `result`: the rest of the operation, up to
\* its next await or its end.  Gives the coroutine and the client's token state.
AfterWrapper(tk, result, client_team_ids, headers, expires, clock) ==
  LET t1 == [tk EXCEPT !.wret = result] IN
  CASE tk.call.name = "async_connect" ->
         LET r == ConnectTail(result, headers, expires, clock)
         IN [task |-> [t1 EXCEPT !.pc = "done", !.ret = r.ret, !.raised = r.raised],
             headers |-> r.headers, expires |-> r.expires]
    [] tk.call.name = "async_get_data" /\ tk.stage = 1 ->
         [task |-> ApiWrapperEnter([t1 EXCEPT !.stage = 2, !.games = result],
                                   WrapperArgs(client_team_ids, tk.call, 2), headers),
          headers |-> headers, expires |-> expires]
    [] tk.call.name = "async_get_data" /\ tk.stage = 2 ->
         [task |-> [t1 EXCEPT !.pc = "done", !.ret = None,
                              !.raised = GetDataTail(tk.games, result)],
          headers |-> headers, expires |-> expires]
    [] OTHER ->
         [task |-> [t1 EXCEPT !.pc = "done", !.ret = result],
          headers |-> headers, expires |-> expires]

Resume(t, tk, result) ==
  LET r == AfterWrapper(tk, result, self_team_ids, self_headers, self_expires, now)
  IN /\ task' = [task EXCEPT ![t] = r.task]
     /\ self_headers' = r.headers
     /\ self_expires' = r.expires

(* ------------------------------- actions ------------------------------- *)

Init ==
  /\ self_team_ids \in TeamLists
  /\ self_headers = None
  /\ self_expires = DatetimeMin
  /\ now = 1
  /\ log = <<>>
  /\ task = [t \in Tasks |-> IdleTask]
  /\ probe = [t |-> "unset"]

\* The test's client: ShlApiClient("test", "test", ["HV71"], session).
InitConc == Init /\ self_team_ids = <<"HV71">>

\* Call with api_wrapper keeping the headers it sends in self._headers.
CallStoringHeaders(t, c) ==
  /\ task[t].pc = "idle"
  /\ task' = [task EXCEPT ![t] =
       ApiWrapperEnter([IdleTask EXCEPT !.call = c,
                                        !.stage = IF c.name = "async_get_data" THEN 1 ELSE 0],
                       WrapperArgs(self_team_ids, c, 1), self_headers)]
  /\ log' = IF \A u \in Tasks \ {t} : task[u].pc = "idle" THEN <<>> ELSE log
  /\ self_headers' = task'[t].req.headers
  /\ UNCHANGED <<self_team_ids, self_expires, now, probe>>

\* Coroutine t starts call c and runs to its first await.  The caller clears the
\* captured log before a call it makes while nothing else is in flight.
Call(t, c) ==
  /\ task[t].pc = "idle"
  /\ task' = [task EXCEPT ![t] =
       ApiWrapperEnter([IdleTask EXCEPT !.call = c,
                                        !.stage = IF c.name = "async_get_data" THEN 1 ELSE 0],
                       WrapperArgs(self_team_ids, c, 1), self_headers)]
  /\ log' = IF \A u \in Tasks \ {t} : task[u].pc = "idle" THEN <<>> ELSE log
  /\ UNCHANGED <<self_team_ids, self_headers, self_expires, now, probe>>

\* The session answers the request of coroutine t.  A GET goes on to await
\* response.json(); put, patch and post fall off the end of api_wrapper.
HttpRespond(t) ==
  /\ task[t].pc = "await_http"
  /\ \E body \in Bodies(task[t].req) :
       IF task[t].req.method = "get"
         THEN /\ task' = [task EXCEPT ![t].pc = "await_json", ![t].resp = body]
              /\ UNCHANGED <<self_headers, self_expires>>
         ELSE Resume(t, [task[t] EXCEPT !.resp = body, !.faults = Append(@, "none")], None)
  /\ UNCHANGED <<self_team_ids, now, log, probe>>

\* response.json() gives the body, which api_wrapper returns.
JsonRespond(t) ==
  /\ task[t].pc = "await_json"
  /\ Resume(t, [task[t] EXCEPT !.faults = Append(@, "none")], task[t].resp)
  /\ UNCHANGED <<self_team_ids, now, log, probe>>

\* An await of api_wrapper raises exc inside the try block: the first matching
\* except clause logs, and api_wrapper falls off its end.
TransportFail(t, exc) ==
  /\ task[t].pc \in {"await_http", "await_json"}
  /\ Len(log) < MaxLog
  /\ IF ExceptHandler(exc) # ""
       THEN /\ log' = Append(log, LogRecord(ExceptHandler(exc), task[t].req.url, exc))
            /\ Resume(t, [task[t] EXCEPT !.faults = Append(@, exc)], None)
       ELSE /\ log' = log
            /\ task' = [task EXCEPT ![t].pc = "done", ![t].raised = exc,
                                    ![t].faults = Append(@, exc)]
            /\ UNCHANGED <<self_headers, self_expires>>
  /\ UNCHANGED <<self_team_ids, now, probe>>

\* The caller takes the result of coroutine t.
Return(t) ==
  /\ task[t].pc = "done"
  /\ task' = [task EXCEPT ![t] = IdleTask]
  /\ UNCHANGED <<self_team_ids, self_headers, self_expires, now, log, probe>>

\* The caller calls is_connected().
IsConnectedCall ==
  /\ probe' = is_connected(self_headers, self_expires, now)
  /\ UNCHANGED <<self_team_ids, self_headers, self_expires, now, log, task>>

Tick ==
  /\ now < MaxTime
  /\ now' = now + 1
  /\ UNCHANGED <<self_team_ids, self_headers, self_expires, log, task, probe>>

\* One caller, one call at a time.
Next ==
  \/ \E c \in Calls : Call(MainTask, c)
  \/ HttpRespond(MainTask)
  \/ JsonRespond(MainTask)
  \/ \E exc \in Faults : TransportFail(MainTask, exc)
  \/ Return(MainTask)
  \/ IsConnectedCall
  \/ Tick

Spec == Init /\ [][Next]_vars

\* Calls interleaved at every suspension point.
NextConc ==
  \/ \E t \in Tasks, c \in ConcCalls : Call(t, c)
  \/ \E t \in Tasks : HttpRespond(t)
  \/ \E t \in Tasks : JsonRespond(t)
  \/ \E t \in Tasks, exc \in ConcFaults : TransportFail(t, exc)
  \/ \E t \in Tasks : Return(t)
  \/ IsConnectedCall
  \/ Tick

SpecConc == InitConc /\ [][NextConc]_vars

(* ----------------------------- properties ------------------------------ *)

IsConnectedNow == Truthy(is_connected(self_headers, self_expires, now))
Sent(t) == task[t].req # NoRequest
Done(t, name) == task[t].pc = "done" /\ task[t].call.name = name
WellFormedToken(body) ==
  body.t = "dict" /\ {"expires_in", "access_token"} \subseteq DOMAIN body.v
\* The headers argument of the api_wrapper call that sent the request of t.
HeadersArgument(t) ==
  WrapperArgs(self_team_ids, task[t].call,
              IF task[t].stage = 0 THEN 1 ELSE task[t].stage).headers
CompleteHeaderSet(h) ==
  h.t = "dict" /\ DOMAIN h.v = {"Content-type", "User-Agent", "Authorization"}
\* Coroutine t ends a successful async_connect in this step.
ConnectSucceeds(t) ==
  /\ task[t].call.name = "async_connect"
  /\ task[t].pc = "await_http"
  /\ task'[t].pc = "done"
  /\ task'[t].faults = <<"none">>
  /\ WellFormedToken(task'[t].resp)
  /\ task'[t].raised = "none"
  /\ task'[t].ret = task'[t].resp

\* C1: when the token endpoint answers the POST of async_connect() with a body
\* {expires_in: E, access_token: T}, async_connect() returns that body and has stored
\* the header set with 'Authorization: Bearer T' and expiry = (time of the answer) + E,
\* so that is_connected() holds exactly until the clock reaches that expiry.
C1_ConnectStoresToken ==
  \A t \in Tasks :
    (Done(t, "async_connect") /\ task[t].faults = <<"none">> /\ WellFormedToken(task[t].resp))
      => /\ task[t].raised = "none"
         /\ task[t].ret = task[t].resp
         /\ self_headers =
              Dict(HEADERS @@ ("Authorization" :> "Bearer " \o task[t].resp.v.access_token))
         /\ self_expires \in (1 + task[t].resp.v.expires_in)..(now + task[t].resp.v.expires_in)
         /\ IsConnectedNow <=> self_expires > now

\* C2: when the token request times out, hits a network error or yields a body
\* without the keys, async_connect() raises nothing, returns nothing and leaves
\* _headers and _expires as they were.
C2_ConnectFailsSilently ==
  \A t \in Tasks :
    (Done(t, "async_connect") /\ Len(task[t].faults) = 1
       /\ (task[t].faults[1] \in Faults \/ ~WellFormedToken(task[t].resp)))
      => /\ task[t].raised = "none"
         /\ task[t].ret = None
         /\ self_headers = None
         /\ self_expires = DatetimeMin

\* The failure categories of the error taxonomy and the prefix each one logs.
CategoryOf(exc) ==
  CASE exc = "TimeoutError" -> "Timeout"
    [] exc \in {"ClientError", "gaierror"} -> "NetworkError"
    [] exc \in {"KeyError", "TypeError"} -> "ParseError"
    [] OTHER -> "UnknownError"
PrefixOf(category) ==
  CASE category = "Timeout" -> FmtTimeout
    [] category = "NetworkError" -> FmtFetch
    [] category = "ParseError" -> FmtParse
    [] OTHER -> FmtGeneric
\* An await of the api_wrapper call of coroutine t fails in this step.
WrapperFails(t) ==
  /\ task[t].pc \in {"await_http", "await_json"}
  /\ Len(task'[t].faults) = Len(task[t].faults) + 1
  /\ task'[t].faults[Len(task'[t].faults)] # "none"

\* C3: for every verb and every failure category injected at the transport layer,
\* api_wrapper writes exactly one log record, with the format of that category,
\* returns None and raises nothing to its caller.
C3_FailureLoggedOnce ==
  [][\A t \in Tasks :
       WrapperFails(t) =>
         /\ Len(log') = Len(log) + 1
         /\ SubSeq(log', 1, Len(log)) = log
         /\ log'[Len(log')].fmt = PrefixOf(CategoryOf(task'[t].faults[Len(task'[t].faults)]))
         /\ task'[t].wret = None
         /\ task[t].call.name = "api_wrapper"
              => /\ task'[t].pc = "done"
                 /\ task'[t].raised = "none"
                 /\ task'[t].ret = None]_vars

C3_Witness ==
  \E t \in Tasks :
    /\ Done(t, "api_wrapper")
    /\ task[t].call.method = "patch"
    /\ task[t].faults = <<"TypeError">>
    /\ Len(log) = 1
    /\ log[1].fmt = FmtParse
    /\ task[t].ret = None

\* C4: a request sent by an api_wrapper call that was given no headers carries the
\* header set of a valid token: the client connected before it sent the request.
C4_ConnectsBeforeRequest ==
  \A t \in Tasks :
    (Sent(t) /\ ~Truthy(HeadersArgument(t))) => CompleteHeaderSet(task[t].req.headers)

\* The query parameters that scope a fetch to teams, and the fetches that take one.
ScopingKeys == {"teamIds", "team_ids"}
TeamScoped ==
  {"async_get_articles", "async_get_games", "async_get_player_stats",
   "async_get_goalie_stats", "async_get_team_stats", "async_get_videos"}

\* C5: a team-scoped fetch sends the comma-join of its team_ids argument as the
\* scoping parameter when the argument is non-empty, no scoping parameter when it
\* is empty, and never an empty-string scoping parameter.
C5_ScopingParameter ==
  \A t \in Tasks :
    (Sent(t) /\ task[t].call.name \in TeamScoped) =>
      LET p == task[t].req.params.v
          keys == DOMAIN p \cap ScopingKeys
      IN /\ task[t].call.team_ids = <<>> => keys = {}
         /\ task[t].call.team_ids # <<>> =>
              /\ keys # {}
              /\ \A k \in keys : p[k] = Join(",", task[t].call.team_ids)
         /\ \A k \in keys : p[k] # ""

\* The resource path documented for each typed fetch.
DocumentedPath(c) ==
  CASE c.name = "async_get_articles" -> "articles.json"
    [] c.name = "async_get_games" -> "games.json"
    [] c.name = "async_get_game" -> "games/" \o c.key \o ".json"
    [] c.name = "async_get_player_stats" -> "statistics/players.json"
    [] c.name = "async_get_goalie_stats" -> "statistics/goalkeepers.json"
    [] c.name = "async_get_teams" -> "teams.json"
    [] c.name = "async_get_team_stats" -> "statistics/teams/standings.json"
    [] c.name = "async_get_team_player_stats" -> "teams/" \o c.key \o ".json"
    [] OTHER -> "videos.json"

\* C6: each typed fetch sends its GET to the URL that the URL builder yields for
\* the documented resource path of the operation.
C6_DocumentedUrl ==
  \A t \in Tasks :
    (Sent(t) /\ task[t].call \in FetchCalls) =>
      /\ task[t].req.method = "get"
      /\ task[t].req.url = generate_url(DocumentedPath(task[t].call), task[t].call.season)

C8_ConnectedOnlyByConnect ==
  /\ ~IsConnectedNow
  /\ [][(~IsConnectedNow /\ IsConnectedNow') => \E t \in Tasks : ConnectSucceeds(t)]_vars

C8_Witness ==
  \E t \in Tasks :
    /\ Done(t, "async_connect")
    /\ task[t].raised = "TypeError"
    /\ log # <<>>
    /\ probe = None
    /\ ~IsConnectedNow

\* C9: only the step that ends an async_connect() changes the stored header set or
\* the stored expiry; every other step leaves both unchanged.
C9_OnlyConnectMutates ==
  [][(self_headers' # self_headers \/ self_expires' # self_expires) =>
       \E t \in Tasks :
         /\ task[t].call.name = "async_connect"
         /\ task[t].pc = "await_http"
         /\ task'[t].pc = "done"]_vars

C9_Witness ==
  \E t \in Tasks :
    /\ Done(t, "async_get_data")
    /\ task[t].faults = <<"none", "ClientError">>
    /\ probe = None
    /\ self_headers = None
    /\ self_expires = DatetimeMin

\* C10: async_get_data raises nothing and returns nothing, whatever the outcome
\* of its games sub-fetch and of its articles sub-fetch.
C10_GetDataNeverRaises ==
  \A t \in Tasks :
    Done(t, "async_get_data") => task[t].raised = "none" /\ task[t].ret = None

====
